---- MODULE Spec2Model ----
(***************************************************************************)
(* Model of kube.Database (pkg/internal/transform/kube/db.go): six maps,   *)
(* each guarded by its own mutex, driven by concurrent callers.  Every     *)
(* critical section of the source is one lock step followed by one step    *)
(* that performs the map operation and releases the lock; calls into the   *)
(* informer are steps taken with no lock held.                             *)
(***************************************************************************)
EXTENDS Integers, Sequences, FiniteSets, TLC

\* ------------------------------------------------------------------ bounds
NumThreads == 2
MaxBatch == 2
MaxCalls == 3

Threads == 1..NumThreads

\* the caller of the specifications that make one call at a time
Caller == {1}

\* ------------------------------------------------------------ Go map model
EmptyMap == [k \in {} |-> k]

MapHas(m, k) == k \in DOMAIN m

MapSet(m, k, v) == [x \in (DOMAIN m) \cup {k} |-> IF x = k THEN v ELSE m[x]]

MapDelete(m, k) == [x \in (DOMAIN m) \ {k} |-> m[x]]

\* v, ok := m[k] : the zero value when the key is missing
MapGet(m, k, zero) == IF k \in DOMAIN m THEN m[k] ELSE zero

\* ------------------------------------------------- processes and containers
\* container.Info{ContainerID, PIDNamespace}; NoInfo is the zero value.
NoInfo == [ContainerID |-> "", PIDNamespace |-> 0]

\* The processes the inspector can be asked about.  Containers c1 and c2 have
\* the same PID namespace number (a reused or shared namespace), c3 its own.
ProcInfo ==
  [p \in {101, 102, 103} |->
     CASE p = 101 -> [ContainerID |-> "c1", PIDNamespace |-> 7]
       [] p = 102 -> [ContainerID |-> "c2", PIDNamespace |-> 7]
       [] p = 103 -> [ContainerID |-> "c3", PIDNamespace |-> 8]]

AllPIDs == DOMAIN ProcInfo
AllCIDs == {ProcInfo[p].ContainerID : p \in AllPIDs}
AllNS == {ProcInfo[p].PIDNamespace : p \in AllPIDs}

\* container.InfoForPID(pid): the process may have exited, so every call can
\* fail; on failure the returned Info is the zero value.
InfoForPID(pid) ==
  { [err |-> FALSE, info |-> ProcInfo[pid]], [err |-> TRUE, info |-> NoInfo] }

\* ------------------------------------------------------------------- pods
\* *kube.PodInfo values are pointers, named by the pod they point to.
Nil == "nil"

\* The pod each container belongs to: c1 and c3 are containers of web-1,
\* c2 is a container of web-2.
PodOf(cid) == CASE cid = "c1" -> "web-1"
                [] cid = "c2" -> "web-2"
                [] cid = "c3" -> "web-1"
                [] OTHER -> Nil

AllPods == {"web-1", "web-2"}

\* ------------------------------------------------- pods, services and nodes
\* PodInfo, ServiceInfo and NodeInfo objects, named by their pointer.  web-0,
\* svc-0 and node-0 have no IP; 10.0.0.5 is an address several objects claim.
IPPods == AllPods \cup {"web-0"}
IPServices == {"svc-a", "svc-b", "svc-0"}
IPNodes == {"node-1", "node-2", "node-0"}

\* obj.IPInfo.IPs
IPsOf(obj) ==
  CASE obj = "web-1" -> <<"10.0.0.5", "10.0.0.6">>
    [] obj = "web-2" -> <<"10.0.0.5">>
    [] obj = "svc-a" -> <<"10.0.0.9", "10.0.0.5">>
    [] obj = "svc-b" -> <<"10.0.0.9">>
    [] obj = "node-1" -> <<"10.0.0.6", "10.0.0.5">>
    [] obj = "node-2" -> <<"10.0.0.6">>
    [] OTHER -> <<>>

AllIPs == {"10.0.0.5", "10.0.0.6", "10.0.0.9"}

\* obj.Name
NameOf(obj) == obj

\* obj.Namespace
NamespaceOf(obj) ==
  CASE obj \in IPPods -> "prod"
    [] obj \in IPServices -> "infra"
    [] OTHER -> ""

\* pod.ServiceName(): the name of the workload that owns the pod.
ServiceName(pod) == IF pod \in AllPods THEN "web" ELSE NameOf(pod)

VARIABLES
  containerIDs,      \* map[string]*container.Info
  namespaces,        \* map[uint32]*container.Info
  fetchedPodsCache,  \* map[uint32]*kube.PodInfo
  podsByIP,          \* map[string]*kube.PodInfo
  svcByIP,           \* map[string]*kube.ServiceInfo
  nodeByIP,          \* map[string]*kube.NodeInfo
  informerPods,      \* the pods the informer currently knows
  start,             \* StartDatabase: its position, the handlers registered, its result
  wlock,             \* per mutex: the thread holding it exclusively, or 0
  rlock,             \* per mutex: the threads holding it shared
  pc,                \* per thread: position in the operation it runs
  frame,             \* per thread: arguments, locals and results
  lastAdd,           \* history: per namespace, the container of the settled AddProcess
  seen,              \* history: per namespace, the pod OwnerPodInfo answered
  obs,               \* history: per thread, what its OwnerPodInfo call may rely on
  pre,               \* history: the maps as they were when the call running alone began
  prev,              \* history: the call that returned just before the one running alone
  added,             \* history: the containers added and not passed to OnDeletion since
  calls              \* history: the number of calls made, up to MaxCalls

dbVars == <<containerIDs, namespaces, fetchedPodsCache>>
lockVars == <<wlock, rlock>>
ipVars == <<podsByIP, svcByIP, nodeByIP>>
envVars == <<informerPods, start>>
histVars == <<lastAdd, seen, obs, pre, prev, added, calls>>
vars == <<containerIDs, namespaces, fetchedPodsCache, podsByIP, svcByIP, nodeByIP,
          informerPods, start, wlock, rlock, pc, frame, lastAdd, seen, obs, pre, prev,
          added, calls>>

Mutexes == {"cntMut", "nsMut", "podsCacheMut", "podsMut", "svcMut", "nodeMut"}

\* ---------------------------------------------------------------- informer
\* informer.GetContainerPod(containerID) -> (pod, ok)
GetContainerPod(cid) ==
  IF PodOf(cid) \in informerPods
    THEN [pod |-> PodOf(cid), ok |-> TRUE]
    ELSE [pod |-> Nil, ok |-> FALSE]

\* ------------------------------------------------------------------ frames
IdleFrame ==
  [op |-> "", pid |-> 0, cids |-> <<>>, i |-> 0, ns |-> 0,
   info |-> NoInfo, ok |-> FALSE, err |-> FALSE, pod |-> Nil, fetched |-> FALSE,
   obj |-> Nil, ip |-> "", tier |-> 0, ret |-> "", retns |-> "",
   handler |-> "", nextOp |-> "", nextObj |-> Nil, evOld |-> Nil, evNew |-> Nil]

IdleObs == [since |-> "", valid |-> FALSE, miss |-> FALSE]

NoSnap == [set |-> FALSE, db |-> <<>>]

NoPrev == [op |-> "", cids |-> <<>>, obj |-> Nil]

\* StartDatabase right after db := CreateDatabase(kubeMetadata): nothing is
\* registered, nothing is returned
Created == [pc |-> "created", attempted |-> <<>>, handlers |-> <<>>,
            err |-> "", db |-> FALSE]

Goto(t, label) == pc' = [pc EXCEPT ![t] = label]

SetFrame(t, f) == frame' = [frame EXCEPT ![t] = f]

\* ------------------------------------------------------------------- locks
\* sync.Mutex / sync.RWMutex
Lock(t, m) ==
  /\ wlock[m] = 0
  /\ rlock[m] = {}
  /\ wlock' = [wlock EXCEPT ![m] = t]
  /\ UNCHANGED rlock

Unlock(t, m) ==
  /\ wlock' = [wlock EXCEPT ![m] = 0]
  /\ UNCHANGED rlock

RLock(t, m) ==
  /\ wlock[m] = 0
  /\ rlock' = [rlock EXCEPT ![m] = @ \cup {t}]
  /\ UNCHANGED wlock

RUnlock(t, m) ==
  /\ rlock' = [rlock EXCEPT ![m] = @ \ {t}]
  /\ UNCHANGED wlock

Init ==
  /\ containerIDs = EmptyMap
  /\ namespaces = EmptyMap
  /\ fetchedPodsCache = EmptyMap
  /\ podsByIP = EmptyMap
  /\ svcByIP = EmptyMap
  /\ nodeByIP = EmptyMap
  /\ informerPods = {}
  /\ start = Created
  /\ wlock = [m \in Mutexes |-> 0]
  /\ rlock = [m \in Mutexes |-> {}]
  /\ pc = [t \in Threads |-> "idle"]
  /\ frame = [t \in Threads |-> IdleFrame]
  /\ lastAdd = [n \in AllNS |-> ""]
  /\ seen = [n \in AllNS |-> Nil]
  /\ obs = [t \in Threads |-> IdleObs]
  /\ pre = NoSnap
  /\ prev = NoPrev
  /\ added = {}
  /\ calls = 0

\* ------------------------------------------------------------------- history
\* The history variables record, from the calls made and returned, what a
\* caller may rely on; no operation of the database reads them.
Running(t) == pc[t] \notin {"idle", "done"}

InAdd(t, n) == /\ Running(t)
               /\ frame[t].op = "AddProcess"
               /\ frame[t].ns = n

\* an OnDeletion that has popped a container of namespace n and still has
\* the cache or the namespace index to clear
InDel(t, n) == /\ Running(t)
               /\ frame[t].op = "OnDeletion"
               /\ frame[t].ok
               /\ frame[t].ns = n

InClean(t, n) == /\ Running(t)
                 /\ frame[t].op = "CleanProcessCaches"
                 /\ frame[t].ns = n

Touching(n) == \E t \in Threads : InAdd(t, n) \/ InDel(t, n)

Invalidating(n) == Touching(n) \/ \E t \in Threads : InClean(t, n)

Starts(t, op) == pc[t] = "idle" /\ pc'[t] # "idle" /\ frame'[t].op = op

Returns(t, op) == Running(t) /\ pc'[t] = "done" /\ frame[t].op = op

\* the container of an AddProcess for namespace n that returns in this step
AddReturning(n) ==
  {frame[t].info.ContainerID : t \in {u \in Threads : Returns(u, "AddProcess") /\ InAdd(u, n)}}

AllIdle == \A t \in Threads : pc[t] = "idle"

\* the six maps
Snap == [containerIDs |-> containerIDs, namespaces |-> namespaces,
         fetchedPodsCache |-> fetchedPodsCache, podsByIP |-> podsByIP,
         svcByIP |-> svcByIP, nodeByIP |-> nodeByIP]

Starting == \E t \in Threads : pc[t] = "idle" /\ pc'[t] # "idle"

Returning == {t \in Threads : pc[t] = "done" /\ pc'[t] = "idle"}

\* the containers of the AddProcess calls that return in this step
AddedNow ==
  {frame[t].info.ContainerID :
     t \in {u \in Threads : Returns(u, "AddProcess") /\ ~frame[u].err}}

\* the containers passed to the OnDeletion calls that return in this step
DeletedNow ==
  UNION {{frame[t].cids[i] : i \in 1..Len(frame[t].cids)} :
           t \in {u \in Threads : Returns(u, "OnDeletion")}}

Observe ==
  /\ added' = (added \cup AddedNow) \ DeletedNow
  /\ calls' = IF Starting /\ calls < MaxCalls THEN calls + 1 ELSE calls
  /\ pre' = IF Starting THEN (IF AllIdle THEN [set |-> TRUE, db |-> Snap] ELSE NoSnap)
            ELSE IF Returning # {} THEN NoSnap
            ELSE pre
  /\ prev' = IF Returning # {}
               THEN (IF pre.set
                       THEN LET f == frame[CHOOSE t \in Returning : TRUE]
                            IN IF f.op = "OnDeletion" \/ f.obj # Nil
                                 THEN [op |-> f.op, cids |-> f.cids, obj |-> f.obj]
                                 ELSE NoPrev
                       ELSE NoPrev)
             ELSE IF Starting THEN (IF AllIdle THEN prev ELSE NoPrev)
             ELSE prev
  /\ lastAdd' = [n \in AllNS |->
        IF Touching(n)' THEN ""
        ELSE IF AddReturning(n) # {} THEN CHOOSE c \in AddReturning(n) : TRUE
        ELSE IF Touching(n) THEN ""
        ELSE lastAdd[n]]
  /\ seen' = [n \in AllNS |->
        IF Invalidating(n)' \/ Invalidating(n) THEN Nil
        ELSE IF seen[n] # Nil THEN seen[n]
        ELSE LET found == {t \in Threads : /\ Returns(t, "OwnerPodInfo")
                                            /\ frame[t].ns = n
                                            /\ frame'[t].ok
                                            /\ obs[t].valid
                                            /\ obs[t].miss}
             IN IF found # {} THEN frame'[CHOOSE t \in found : TRUE].pod ELSE Nil]
  /\ obs' = [t \in Threads |->
        IF Starts(t, "OwnerPodInfo")
          THEN [since |-> lastAdd'[frame'[t].ns],
                valid |-> \A n \in AllNS : (n = frame'[t].ns) => ~Invalidating(n)',
                miss |-> FALSE]
        ELSE IF pc'[t] = "idle" \/ frame'[t].op # "OwnerPodInfo" THEN IdleObs
        ELSE [since |-> IF lastAdd'[frame[t].ns] = obs[t].since THEN obs[t].since ELSE "",
              valid |-> obs[t].valid /\ ~Invalidating(frame[t].ns)',
              miss |-> obs[t].miss \/ pc'[t] = "OwnerPodInfo_ns"]]

\* -------------------------------------------------------------- deletePodCache
\* where the caller of deletePodCache continues
AfterDeletePodCache(op) ==
  CASE op = "AddProcess" -> "addProcess_ns"
    [] op = "OnDeletion" -> "OnDeletion_ns"
    [] OTHER -> "done"

deletePodCache_Lock(t) ==
  /\ pc[t] = "deletePodCache"
  /\ Lock(t, "podsCacheMut")
  /\ Goto(t, "deletePodCache_cs")
  /\ UNCHANGED <<dbVars, envVars, frame>>
  /\ UNCHANGED ipVars
  /\ Observe

\* deletePodCache dropping every entry instead of the one for ns
deletePodCache_DeleteAll(t) ==
  /\ pc[t] = "deletePodCache_cs"
  /\ fetchedPodsCache' = EmptyMap
  /\ Unlock(t, "podsCacheMut")
  /\ Goto(t, AfterDeletePodCache(frame[t].op))
  /\ UNCHANGED <<containerIDs, namespaces, envVars, frame>>
  /\ UNCHANGED ipVars
  /\ Observe

deletePodCache_Delete(t) ==
  /\ pc[t] = "deletePodCache_cs"
  /\ fetchedPodsCache' = MapDelete(fetchedPodsCache, frame[t].ns)
  /\ Unlock(t, "podsCacheMut")
  /\ Goto(t, AfterDeletePodCache(frame[t].op))
  /\ UNCHANGED <<containerIDs, namespaces, envVars, frame>>
  /\ UNCHANGED ipVars
  /\ Observe

\* ------------------------------------------------------------------ AddProcess
\* AddProcess going on to addProcess although InfoForPID failed
AddProcess_IgnoreErr(t, pid) ==
  /\ pc[t] = "idle"
  /\ \E r \in InfoForPID(pid) :
       /\ SetFrame(t, [IdleFrame EXCEPT !.op = "AddProcess", !.pid = pid,
                                        !.err = r.err, !.info = r.info,
                                        !.ns = r.info.PIDNamespace])
       /\ Goto(t, "deletePodCache")
  /\ UNCHANGED <<dbVars, envVars, lockVars>>
  /\ UNCHANGED ipVars
  /\ Observe

AddProcess(t, pid) ==
  /\ pc[t] = "idle"
  /\ \E r \in InfoForPID(pid) :
       IF r.err
         THEN /\ SetFrame(t, [IdleFrame EXCEPT !.op = "AddProcess", !.pid = pid,
                                               !.err = TRUE])
              /\ Goto(t, "done")
         ELSE /\ SetFrame(t, [IdleFrame EXCEPT !.op = "AddProcess", !.pid = pid,
                                               !.info = r.info,
                                               !.ns = r.info.PIDNamespace])
              /\ Goto(t, "deletePodCache")
  /\ UNCHANGED <<dbVars, envVars, lockVars>>
  /\ UNCHANGED ipVars
  /\ Observe

addProcess_nsLock(t) ==
  /\ pc[t] = "addProcess_ns"
  /\ Lock(t, "nsMut")
  /\ Goto(t, "addProcess_ns_cs")
  /\ UNCHANGED <<dbVars, envVars, frame>>
  /\ UNCHANGED ipVars
  /\ Observe

\* addProcess going on to cntMut without releasing nsMut
addProcess_nsSet_NoUnlock(t) ==
  /\ pc[t] = "addProcess_ns_cs"
  /\ namespaces' = MapSet(namespaces, frame[t].info.PIDNamespace, frame[t].info)
  /\ Goto(t, "addProcess_cnt")
  /\ UNCHANGED <<containerIDs, fetchedPodsCache, envVars, frame, lockVars>>
  /\ UNCHANGED ipVars
  /\ Observe

addProcess_nsSet(t) ==
  /\ pc[t] = "addProcess_ns_cs"
  /\ namespaces' = MapSet(namespaces, frame[t].info.PIDNamespace, frame[t].info)
  /\ Unlock(t, "nsMut")
  /\ Goto(t, "addProcess_cnt")
  /\ UNCHANGED <<containerIDs, fetchedPodsCache, envVars, frame>>
  /\ UNCHANGED ipVars
  /\ Observe

addProcess_cntLock(t) ==
  /\ pc[t] = "addProcess_cnt"
  /\ Lock(t, "cntMut")
  /\ Goto(t, "addProcess_cnt_cs")
  /\ UNCHANGED <<dbVars, envVars, frame>>
  /\ UNCHANGED ipVars
  /\ Observe

addProcess_cntSet(t) ==
  /\ pc[t] = "addProcess_cnt_cs"
  /\ containerIDs' = MapSet(containerIDs, frame[t].info.ContainerID, frame[t].info)
  /\ Unlock(t, "cntMut")
  /\ Goto(t, "done")
  /\ UNCHANGED <<namespaces, fetchedPodsCache, envVars, frame>>
  /\ UNCHANGED ipVars
  /\ Observe

\* ------------------------------------------------------------------ OnDeletion
\* the position after iteration i of the range loop
OnDeletion_next(f) == IF f.i < Len(f.cids) THEN "OnDeletion_cnt" ELSE "done"

OnDeletion(t, cids) ==
  /\ pc[t] = "idle"
  /\ SetFrame(t, [IdleFrame EXCEPT !.op = "OnDeletion", !.cids = cids, !.i = 0])
  /\ Goto(t, IF Len(cids) > 0 THEN "OnDeletion_cnt" ELSE "done")
  /\ UNCHANGED <<dbVars, envVars, lockVars>>
  /\ UNCHANGED ipVars
  /\ Observe

OnDeletion_cntLock(t) ==
  /\ pc[t] = "OnDeletion_cnt"
  /\ Lock(t, "cntMut")
  /\ Goto(t, "OnDeletion_cnt_cs")
  /\ SetFrame(t, [frame[t] EXCEPT !.i = @ + 1])
  /\ UNCHANGED <<dbVars, envVars>>
  /\ UNCHANGED ipVars
  /\ Observe

\* OnDeletion without the "if ok" test: info is nil for an unknown ID, and
\* reading info.PIDNamespace panics
OnDeletion_pop_NoOkTest(t) ==
  /\ pc[t] = "OnDeletion_cnt_cs"
  /\ LET cid == frame[t].cids[frame[t].i]
         ok == MapHas(containerIDs, cid)
         info == MapGet(containerIDs, cid, NoInfo)
     IN /\ containerIDs' = MapDelete(containerIDs, cid)
        /\ SetFrame(t, [frame[t] EXCEPT !.info = info, !.ok = ok,
                                        !.ns = info.PIDNamespace])
        /\ Goto(t, IF ok THEN "deletePodCache" ELSE "panic")
  /\ Unlock(t, "cntMut")
  /\ UNCHANGED <<namespaces, fetchedPodsCache, envVars>>
  /\ UNCHANGED ipVars
  /\ Observe

OnDeletion_pop(t) ==
  /\ pc[t] = "OnDeletion_cnt_cs"
  /\ LET cid == frame[t].cids[frame[t].i]
         ok == MapHas(containerIDs, cid)
         info == MapGet(containerIDs, cid, NoInfo)
     IN /\ containerIDs' = MapDelete(containerIDs, cid)
        /\ IF ok
             THEN /\ SetFrame(t, [frame[t] EXCEPT !.info = info, !.ok = TRUE,
                                                  !.ns = info.PIDNamespace])
                  /\ Goto(t, "deletePodCache")
             ELSE /\ SetFrame(t, [frame[t] EXCEPT !.info = NoInfo, !.ok = FALSE,
                                                  !.ns = 0])
                  /\ Goto(t, OnDeletion_next(frame[t]))
  /\ Unlock(t, "cntMut")
  /\ UNCHANGED <<namespaces, fetchedPodsCache, envVars>>
  /\ UNCHANGED ipVars
  /\ Observe

OnDeletion_nsLock(t) ==
  /\ pc[t] = "OnDeletion_ns"
  /\ Lock(t, "nsMut")
  /\ Goto(t, "OnDeletion_ns_cs")
  /\ UNCHANGED <<dbVars, envVars, frame>>
  /\ UNCHANGED ipVars
  /\ Observe

OnDeletion_nsDelete(t) ==
  /\ pc[t] = "OnDeletion_ns_cs"
  /\ namespaces' = MapDelete(namespaces, frame[t].info.PIDNamespace)
  /\ Unlock(t, "nsMut")
  /\ Goto(t, OnDeletion_next(frame[t]))
  /\ SetFrame(t, [frame[t] EXCEPT !.info = NoInfo, !.ok = FALSE, !.ns = 0])
  /\ UNCHANGED <<containerIDs, fetchedPodsCache, envVars>>
  /\ UNCHANGED ipVars
  /\ Observe

\* ---------------------------------------------------------- CleanProcessCaches
CleanProcessCaches(t, ns) ==
  /\ pc[t] = "idle"
  /\ SetFrame(t, [IdleFrame EXCEPT !.op = "CleanProcessCaches", !.ns = ns])
  /\ Goto(t, "deletePodCache")
  /\ UNCHANGED <<dbVars, envVars, lockVars>>
  /\ UNCHANGED ipVars
  /\ Observe

\* ---------------------------------------------------------------- OwnerPodInfo
OwnerPodInfo(t, pidNamespace) ==
  /\ pc[t] = "idle"
  /\ SetFrame(t, [IdleFrame EXCEPT !.op = "OwnerPodInfo", !.ns = pidNamespace])
  /\ Goto(t, "OwnerPodInfo_cache")
  /\ UNCHANGED <<dbVars, envVars, lockVars>>
  /\ UNCHANGED ipVars
  /\ Observe

OwnerPodInfo_cacheRLock(t) ==
  /\ pc[t] = "OwnerPodInfo_cache"
  /\ RLock(t, "podsCacheMut")
  /\ Goto(t, "OwnerPodInfo_cache_cs")
  /\ UNCHANGED <<dbVars, envVars, frame>>
  /\ UNCHANGED ipVars
  /\ Observe

\* the cache hit returning the pod without refreshing its owner metadata
OwnerPodInfo_cacheRead_NoFetch(t) ==
  /\ pc[t] = "OwnerPodInfo_cache_cs"
  /\ LET ok == MapHas(fetchedPodsCache, frame[t].ns)
         pod == MapGet(fetchedPodsCache, frame[t].ns, Nil)
     IN /\ SetFrame(t, [frame[t] EXCEPT !.pod = pod, !.ok = ok])
        /\ Goto(t, IF ok THEN "done" ELSE "OwnerPodInfo_ns")
  /\ RUnlock(t, "podsCacheMut")
  /\ UNCHANGED <<dbVars, envVars>>
  /\ UNCHANGED ipVars
  /\ Observe

OwnerPodInfo_cacheRead(t) ==
  /\ pc[t] = "OwnerPodInfo_cache_cs"
  /\ LET ok == MapHas(fetchedPodsCache, frame[t].ns)
         pod == MapGet(fetchedPodsCache, frame[t].ns, Nil)
     IN /\ SetFrame(t, [frame[t] EXCEPT !.pod = pod, !.ok = ok])
        /\ Goto(t, IF ok THEN "OwnerPodInfo_fetch" ELSE "OwnerPodInfo_ns")
  /\ RUnlock(t, "podsCacheMut")
  /\ UNCHANGED <<dbVars, envVars>>
  /\ UNCHANGED ipVars
  /\ Observe

OwnerPodInfo_nsRLock(t) ==
  /\ pc[t] = "OwnerPodInfo_ns"
  /\ RLock(t, "nsMut")
  /\ Goto(t, "OwnerPodInfo_ns_cs")
  /\ UNCHANGED <<dbVars, envVars, frame>>
  /\ UNCHANGED ipVars
  /\ Observe

\* the namespace read lock kept (a deferred RUnlock) over the informer call
OwnerPodInfo_nsRead_KeepLock(t) ==
  /\ pc[t] = "OwnerPodInfo_ns_cs"
  /\ LET ok == MapHas(namespaces, frame[t].ns)
         info == MapGet(namespaces, frame[t].ns, NoInfo)
     IN /\ SetFrame(t, [frame[t] EXCEPT !.info = info, !.ok = ok, !.pod = Nil])
        /\ Goto(t, IF ok THEN "OwnerPodInfo_get" ELSE "done")
  /\ IF MapHas(namespaces, frame[t].ns) THEN UNCHANGED lockVars
                                        ELSE RUnlock(t, "nsMut")
  /\ UNCHANGED <<dbVars, envVars>>
  /\ UNCHANGED ipVars
  /\ Observe

OwnerPodInfo_nsRead(t) ==
  /\ pc[t] = "OwnerPodInfo_ns_cs"
  /\ LET ok == MapHas(namespaces, frame[t].ns)
         info == MapGet(namespaces, frame[t].ns, NoInfo)
     IN /\ SetFrame(t, [frame[t] EXCEPT !.info = info, !.ok = ok, !.pod = Nil])
        /\ Goto(t, IF ok THEN "OwnerPodInfo_get" ELSE "done")
  /\ RUnlock(t, "nsMut")
  /\ UNCHANGED <<dbVars, envVars>>
  /\ UNCHANGED ipVars
  /\ Observe

OwnerPodInfo_GetContainerPod(t) ==
  /\ pc[t] = "OwnerPodInfo_get"
  /\ LET r == GetContainerPod(frame[t].info.ContainerID)
     IN /\ SetFrame(t, [frame[t] EXCEPT !.pod = r.pod, !.ok = r.ok])
        /\ Goto(t, IF r.ok THEN "OwnerPodInfo_set" ELSE "done")
  /\ UNCHANGED <<dbVars, envVars, lockVars>>
  /\ UNCHANGED ipVars
  /\ Observe

OwnerPodInfo_cacheLock(t) ==
  /\ pc[t] = "OwnerPodInfo_set"
  /\ Lock(t, "podsCacheMut")
  /\ Goto(t, "OwnerPodInfo_set_cs")
  /\ UNCHANGED <<dbVars, envVars, frame>>
  /\ UNCHANGED ipVars
  /\ Observe

\* the cache insert also indexing the pod under its first IP
OwnerPodInfo_cacheSet_IndexPod(t) ==
  /\ pc[t] = "OwnerPodInfo_set_cs"
  /\ fetchedPodsCache' = MapSet(fetchedPodsCache, frame[t].ns, frame[t].pod)
  /\ podsByIP' = IF Len(IPsOf(frame[t].pod)) > 0
                   THEN MapSet(podsByIP, IPsOf(frame[t].pod)[1], frame[t].pod)
                   ELSE podsByIP
  /\ Unlock(t, "podsCacheMut")
  /\ Goto(t, "OwnerPodInfo_fetch")
  /\ UNCHANGED <<containerIDs, namespaces, envVars, frame>>
  /\ UNCHANGED <<svcByIP, nodeByIP>>
  /\ Observe

OwnerPodInfo_cacheSet(t) ==
  /\ pc[t] = "OwnerPodInfo_set_cs"
  /\ fetchedPodsCache' = MapSet(fetchedPodsCache, frame[t].ns, frame[t].pod)
  /\ Unlock(t, "podsCacheMut")
  /\ Goto(t, "OwnerPodInfo_fetch")
  /\ UNCHANGED <<containerIDs, namespaces, envVars, frame>>
  /\ UNCHANGED ipVars
  /\ Observe

\* informer.FetchPodOwnerInfo(pod), then return pod, true
OwnerPodInfo_FetchPodOwnerInfo(t) ==
  /\ pc[t] = "OwnerPodInfo_fetch"
  /\ SetFrame(t, [frame[t] EXCEPT !.fetched = TRUE, !.ok = TRUE, !.info = NoInfo])
  /\ Goto(t, "done")
  /\ UNCHANGED <<dbVars, envVars, lockVars>>
  /\ UNCHANGED ipVars
  /\ Observe

\* ------------------------------------------------------------------ IP indexes
\* UpdateNew*ByIPIndex / UpdateDeleted*ByIPIndex / *InfoForIP share their
\* shape; the operation name selects the map, its mutex and the map operation.
FamOf(op) ==
  CASE op \in {"UpdateNewPodsByIPIndex", "UpdateDeletedPodsByIPIndex", "PodInfoForIP"} -> "pods"
    [] op \in {"UpdateNewServicesByIPIndex", "UpdateDeletedServicesByIPIndex", "ServiceInfoForIP"} -> "svc"
    [] OTHER -> "nodes"

IsAdd(op) ==
  op \in {"UpdateNewPodsByIPIndex", "UpdateNewServicesByIPIndex", "UpdateNewNodesByIPIndex"}

MutexOf(fam) == CASE fam = "pods" -> "podsMut"
                  [] fam = "svc" -> "svcMut"
                  [] OTHER -> "nodeMut"

Index(fam) == CASE fam = "pods" -> podsByIP
                [] fam = "svc" -> svcByIP
                [] OTHER -> nodeByIP

SetIndex(fam, m) ==
  /\ podsByIP' = IF fam = "pods" THEN m ELSE podsByIP
  /\ svcByIP' = IF fam = "svc" THEN m ELSE svcByIP
  /\ nodeByIP' = IF fam = "nodes" THEN m ELSE nodeByIP

\* The node operations lock before they test the IP list, the pod and
\* service operations test first and return without locking.
LocksFirst(op) == FamOf(op) = "nodes"

IPUpdateCall(t, op, obj) ==
  /\ pc[t] = "idle"
  /\ SetFrame(t, [IdleFrame EXCEPT !.op = op, !.obj = obj])
  /\ Goto(t, IF LocksFirst(op) \/ Len(IPsOf(obj)) > 0 THEN "ipw_lock" ELSE "done")
  /\ UNCHANGED <<dbVars, ipVars, envVars, lockVars>>
  /\ Observe

UpdateNewPodsByIPIndex(t, pod) == IPUpdateCall(t, "UpdateNewPodsByIPIndex", pod)

UpdateDeletedPodsByIPIndex(t, pod) == IPUpdateCall(t, "UpdateDeletedPodsByIPIndex", pod)

UpdateNewServicesByIPIndex(t, svc) == IPUpdateCall(t, "UpdateNewServicesByIPIndex", svc)

UpdateDeletedServicesByIPIndex(t, svc) == IPUpdateCall(t, "UpdateDeletedServicesByIPIndex", svc)

UpdateNewNodesByIPIndex(t, node) == IPUpdateCall(t, "UpdateNewNodesByIPIndex", node)

UpdateDeletedNodesByIPIndex(t, node) == IPUpdateCall(t, "UpdateDeletedNodesByIPIndex", node)

\* the update entering its loop without taking the index's mutex
IPIndex_Lock_NoLock(t) ==
  /\ pc[t] = "ipw_lock"
  /\ Goto(t, IF Len(IPsOf(frame[t].obj)) > 0 THEN "ipw_loop" ELSE "ipw_unlock")
  /\ UNCHANGED <<dbVars, ipVars, envVars, frame, lockVars>>
  /\ Observe

IPIndex_Lock(t) ==
  /\ pc[t] = "ipw_lock"
  /\ Lock(t, MutexOf(FamOf(frame[t].op)))
  /\ Goto(t, IF Len(IPsOf(frame[t].obj)) > 0 THEN "ipw_loop" ELSE "ipw_unlock")
  /\ UNCHANGED <<dbVars, ipVars, envVars, frame>>
  /\ Observe

\* the delete removing an IP only when it still maps to the deleted object
IPIndex_Apply_IdentityCheck(t) ==
  /\ pc[t] = "ipw_loop"
  /\ LET f == frame[t]
         i == f.i + 1
         ip == IPsOf(f.obj)[i]
         m == Index(FamOf(f.op))
     IN /\ SetIndex(FamOf(f.op),
                    IF IsAdd(f.op) THEN MapSet(m, ip, f.obj)
                    ELSE IF MapGet(m, ip, Nil) = f.obj THEN MapDelete(m, ip)
                    ELSE m)
        /\ SetFrame(t, [f EXCEPT !.i = i])
        /\ Goto(t, IF i < Len(IPsOf(f.obj)) THEN "ipw_loop" ELSE "ipw_unlock")
  /\ UNCHANGED <<dbVars, envVars, lockVars>>
  /\ Observe

\* the loop leaving after its first iteration
IPIndex_Apply_FirstOnly(t) ==
  /\ pc[t] = "ipw_loop"
  /\ LET f == frame[t]
         i == f.i + 1
         ip == IPsOf(f.obj)[i]
         m == Index(FamOf(f.op))
     IN /\ SetIndex(FamOf(f.op), IF IsAdd(f.op) THEN MapSet(m, ip, f.obj)
                                                ELSE MapDelete(m, ip))
        /\ SetFrame(t, [f EXCEPT !.i = i])
        /\ Goto(t, "ipw_unlock")
  /\ UNCHANGED <<dbVars, envVars, lockVars>>
  /\ Observe

\* one iteration of: for _, ip := range obj.IPInfo.IPs
IPIndex_Apply(t) ==
  /\ pc[t] = "ipw_loop"
  /\ LET f == frame[t]
         i == f.i + 1
         ip == IPsOf(f.obj)[i]
         m == Index(FamOf(f.op))
     IN /\ SetIndex(FamOf(f.op), IF IsAdd(f.op) THEN MapSet(m, ip, f.obj)
                                                ELSE MapDelete(m, ip))
        /\ SetFrame(t, [f EXCEPT !.i = i])
        /\ Goto(t, IF i < Len(IPsOf(f.obj)) THEN "ipw_loop" ELSE "ipw_unlock")
  /\ UNCHANGED <<dbVars, envVars, lockVars>>
  /\ Observe

\* the deferred Unlock
IPIndex_Unlock(t) ==
  /\ pc[t] = "ipw_unlock"
  /\ Unlock(t, MutexOf(FamOf(frame[t].op)))
  /\ Goto(t, "done")
  /\ UNCHANGED <<dbVars, ipVars, envVars, frame>>
  /\ Observe

IPReadCall(t, op, ip) ==
  /\ pc[t] = "idle"
  /\ SetFrame(t, [IdleFrame EXCEPT !.op = op, !.ip = ip])
  /\ Goto(t, "ipr_lock")
  /\ UNCHANGED <<dbVars, ipVars, envVars, lockVars>>
  /\ Observe

PodInfoForIP(t, ip) == IPReadCall(t, "PodInfoForIP", ip)

ServiceInfoForIP(t, ip) == IPReadCall(t, "ServiceInfoForIP", ip)

NodeInfoForIP(t, ip) == IPReadCall(t, "NodeInfoForIP", ip)

IPRead_RLock(t) ==
  /\ pc[t] = "ipr_lock"
  /\ RLock(t, MutexOf(FamOf(frame[t].op)))
  /\ Goto(t, "ipr_cs")
  /\ UNCHANGED <<dbVars, ipVars, envVars, frame>>
  /\ Observe

\* return id.xByIP[ip], then the deferred RUnlock
IPRead_Read(t) ==
  /\ pc[t] = "ipr_cs"
  /\ SetFrame(t, [frame[t] EXCEPT
                    !.ret = MapGet(Index(FamOf(frame[t].op)), frame[t].ip, Nil)])
  /\ RUnlock(t, MutexOf(FamOf(frame[t].op)))
  /\ Goto(t, "done")
  /\ UNCHANGED <<dbVars, ipVars, envVars>>
  /\ Observe

\* ------------------------------------ HostNameForIP / ServiceNameNamespaceForIP
\* the pod index consulted before the service index
Tiers_PodsFirst == <<"pods", "svc", "nodes">>

\* the order in which the three indexes are consulted
Tiers == <<"svc", "pods", "nodes">>

LookupCall(t, op, ip) ==
  /\ pc[t] = "idle"
  /\ SetFrame(t, [IdleFrame EXCEPT !.op = op, !.ip = ip, !.tier = 1])
  /\ Goto(t, "lookup_lock")
  /\ UNCHANGED <<dbVars, ipVars, envVars, lockVars>>
  /\ Observe

HostNameForIP(t, ip) == LookupCall(t, "HostNameForIP", ip)

ServiceNameNamespaceForIP(t, ip) == LookupCall(t, "ServiceNameNamespaceForIP", ip)

\* what a hit in index fam returns
LookupName(op, fam, obj) ==
  IF op = "ServiceNameNamespaceForIP" /\ fam = "pods" THEN ServiceName(obj)
                                                      ELSE NameOf(obj)

LookupNamespace(op, obj) ==
  IF op = "ServiceNameNamespaceForIP" THEN NamespaceOf(obj) ELSE ""

Lookup_RLock(t) ==
  /\ pc[t] = "lookup_lock"
  /\ RLock(t, MutexOf(Tiers[frame[t].tier]))
  /\ Goto(t, "lookup_cs")
  /\ UNCHANGED <<dbVars, ipVars, envVars, frame>>
  /\ Observe

Lookup_Read(t) ==
  /\ pc[t] = "lookup_cs"
  /\ LET f == frame[t]
         fam == Tiers[f.tier]
         ok == MapHas(Index(fam), f.ip)
         obj == MapGet(Index(fam), f.ip, Nil)
     IN IF ok
          THEN /\ SetFrame(t, [f EXCEPT !.ok = TRUE,
                                        !.ret = LookupName(f.op, fam, obj),
                                        !.retns = LookupNamespace(f.op, obj)])
               /\ Goto(t, "done")
          ELSE IF f.tier < Len(Tiers)
            THEN /\ SetFrame(t, [f EXCEPT !.tier = @ + 1])
                 /\ Goto(t, "lookup_lock")
            ELSE /\ SetFrame(t, [f EXCEPT !.ok = FALSE, !.ret = "", !.retns = ""])
                 /\ Goto(t, "done")
  /\ RUnlock(t, MutexOf(Tiers[frame[t].tier]))
  /\ UNCHANGED <<dbVars, ipVars, envVars>>
  /\ Observe

\* ---------------------------------------------------------------------- return
Return(t) ==
  /\ pc[t] = "done"
  /\ frame[t].nextOp = ""
  /\ Goto(t, "idle")
  /\ SetFrame(t, IdleFrame)
  /\ UNCHANGED <<dbVars, envVars, lockVars>>
  /\ UNCHANGED ipVars
  /\ Observe

\* The informer learns of a pod, or forgets one.
InformerUpdate(p) ==
  /\ informerPods' = IF p \in informerPods THEN informerPods \ {p}
                                           ELSE informerPods \cup {p}
  /\ UNCHANGED <<dbVars, ipVars, lockVars, pc, frame, histVars, start>>

\* --------------------------------------------------------------- StartDatabase
\* db.informer.AddContainerEventHandler(&db): cannot fail
StartDatabase_AddContainerEventHandler ==
  /\ start.pc = "created"
  /\ start' = [start EXCEPT !.handlers = Append(@, "containers"),
                            !.attempted = Append(@, "containers"),
                            !.pc = "pods"]
  /\ UNCHANGED <<dbVars, ipVars, lockVars, pc, frame, histVars, informerPods>>

\* one "if err := db.informer.AddXEventHandler(...); err != nil { return nil,
\* fmt.Errorf(...) }": the registration is attempted and succeeds or fails
Register(kind, errName, nextPc) ==
  \E ok \in BOOLEAN :
    start' = IF ok
               THEN [start EXCEPT !.attempted = Append(@, kind),
                                  !.handlers = Append(@, kind),
                                  !.pc = nextPc,
                                  !.db = (nextPc = "returned")]
               ELSE [start EXCEPT !.attempted = Append(@, kind),
                                  !.err = errName,
                                  !.pc = "returned"]

StartDatabase_AddPodEventHandler ==
  /\ start.pc = "pods"
  /\ Register("pods", "Pod", "svc")
  /\ UNCHANGED <<dbVars, ipVars, lockVars, pc, frame, histVars, informerPods>>

\* the error of the service registration dropped
StartDatabase_AddServiceIPEventHandler_IgnoreErr ==
  /\ start.pc = "svc"
  /\ \E ok \in BOOLEAN :
       start' = [start EXCEPT !.attempted = Append(@, "svc"),
                              !.handlers = IF ok THEN Append(@, "svc") ELSE @,
                              !.pc = "nodes"]
  /\ UNCHANGED <<dbVars, ipVars, lockVars, pc, frame, histVars, informerPods>>

StartDatabase_AddServiceIPEventHandler ==
  /\ start.pc = "svc"
  /\ Register("svc", "Service", "nodes")
  /\ UNCHANGED <<dbVars, ipVars, lockVars, pc, frame, histVars, informerPods>>

\* the last registration; on success: return &db, nil
StartDatabase_AddNodeEventHandler ==
  /\ start.pc = "nodes"
  /\ Register("nodes", "Node", "returned")
  /\ UNCHANGED <<dbVars, ipVars, lockVars, pc, frame, histVars, informerPods>>

\* ------------------------------------------------- the registered event handlers
NewOp(fam) == CASE fam = "pods" -> "UpdateNewPodsByIPIndex"
                [] fam = "svc" -> "UpdateNewServicesByIPIndex"
                [] OTHER -> "UpdateNewNodesByIPIndex"

DelOp(fam) == CASE fam = "pods" -> "UpdateDeletedPodsByIPIndex"
                [] fam = "svc" -> "UpdateDeletedServicesByIPIndex"
                [] OTHER -> "UpdateDeletedNodesByIPIndex"

\* the informer calls only the handlers that were registered
Registered(fam) == \E i \in 1..Len(start.handlers) : start.handlers[i] = fam

\* AddFunc: db.UpdateNew*ByIPIndex(obj)
AddFunc(t, fam, obj) ==
  /\ Registered(fam)
  /\ IPUpdateCall(t, NewOp(fam), obj)

\* DeleteFunc: db.UpdateDeleted*ByIPIndex(obj)
DeleteFunc(t, fam, obj) ==
  /\ Registered(fam)
  /\ IPUpdateCall(t, DelOp(fam), obj)

\* the handler entering firstOp(firstObj) and leaving secondOp(secondObj) to do
HandlerCall(t, firstOp, firstObj, secondOp, secondObj, oldObj, newObj) ==
  /\ pc[t] = "idle"
  /\ SetFrame(t, [IdleFrame EXCEPT !.op = firstOp, !.obj = firstObj,
                                   !.handler = "UpdateFunc",
                                   !.nextOp = secondOp, !.nextObj = secondObj,
                                   !.evOld = oldObj, !.evNew = newObj])
  /\ Goto(t, IF LocksFirst(firstOp) \/ Len(IPsOf(firstObj)) > 0 THEN "ipw_lock"
                                                                   ELSE "done")
  /\ UNCHANGED <<dbVars, ipVars, envVars, lockVars>>
  /\ Observe

\* UpdateFunc adding the new object before deleting the old one
UpdateFunc_AddFirst(t, fam, oldObj, newObj) ==
  /\ Registered(fam)
  /\ HandlerCall(t, NewOp(fam), newObj, DelOp(fam), oldObj, oldObj, newObj)

\* UpdateFunc: db.UpdateDeleted*ByIPIndex(oldObj), then
\* db.UpdateNew*ByIPIndex(newObj)
UpdateFunc(t, fam, oldObj, newObj) ==
  /\ Registered(fam)
  /\ HandlerCall(t, DelOp(fam), oldObj, NewOp(fam), newObj, oldObj, newObj)

\* the second call of UpdateFunc, after the first has returned
UpdateFunc_Second(t) ==
  /\ pc[t] = "done"
  /\ frame[t].nextOp # ""
  /\ SetFrame(t, [IdleFrame EXCEPT !.op = frame[t].nextOp, !.obj = frame[t].nextObj,
                                   !.handler = "UpdateFunc",
                                   !.evOld = frame[t].evOld,
                                   !.evNew = frame[t].evNew])
  /\ Goto(t, IF LocksFirst(frame[t].nextOp) \/ Len(IPsOf(frame[t].nextObj)) > 0
               THEN "ipw_lock" ELSE "done")
  /\ UNCHANGED <<dbVars, ipVars, envVars, lockVars>>
  /\ Observe

\* ------------------------------------------------------------- specifications
ConcBatch == 1

Batches(cids, n) == UNION {[1..k -> cids] : k \in 0..n}

Step(t) ==
  \/ deletePodCache_Lock(t)
  \/ deletePodCache_Delete(t)
  \/ addProcess_nsLock(t)
  \/ addProcess_nsSet(t)
  \/ addProcess_cntLock(t)
  \/ addProcess_cntSet(t)
  \/ OnDeletion_cntLock(t)
  \/ OnDeletion_pop(t)
  \/ OnDeletion_nsLock(t)
  \/ OnDeletion_nsDelete(t)
  \/ OwnerPodInfo_cacheRLock(t)
  \/ OwnerPodInfo_cacheRead(t)
  \/ OwnerPodInfo_nsRLock(t)
  \/ OwnerPodInfo_nsRead(t)
  \/ OwnerPodInfo_GetContainerPod(t)
  \/ OwnerPodInfo_cacheLock(t)
  \/ OwnerPodInfo_cacheSet(t)
  \/ OwnerPodInfo_FetchPodOwnerInfo(t)
  \/ Return(t)

\* Concurrent callers on one reused namespace.
ConcPIDs == {101, 102}
ConcCIDs == {"c1", "c2"}
ConcNS == {7}
ConcPods == {"web-1"}
ConcServices == {"svc-a"}
ConcNodes == {"node-1"}
ConcIPs == {"10.0.0.5"}

Next ==
  \/ \E t \in Threads : \E pid \in ConcPIDs : AddProcess(t, pid)
  \/ \E t \in Threads : \E b \in Batches(ConcCIDs, ConcBatch) : OnDeletion(t, b)
  \/ \E t \in Threads : \E ns \in ConcNS : CleanProcessCaches(t, ns)
  \/ \E t \in Threads : \E ns \in ConcNS : OwnerPodInfo(t, ns)
  \/ \E t \in Threads : Step(t)
  \/ \E p \in AllPods : InformerUpdate(p)

Spec == Init /\ [][Next]_vars

\* One call at a time: a call starts only when every thread is idle, and the
\* informer changes only between calls.

NextSeq ==
  \/ \E t \in Caller : \E pid \in AllPIDs : AllIdle /\ AddProcess(t, pid)
  \/ \E t \in Caller : \E b \in Batches(AllCIDs, MaxBatch) : AllIdle /\ OnDeletion(t, b)
  \/ \E t \in Caller : \E ns \in AllNS : AllIdle /\ CleanProcessCaches(t, ns)
  \/ \E t \in Caller : \E ns \in AllNS : AllIdle /\ OwnerPodInfo(t, ns)
  \/ \E t \in Caller : \E o \in ConcPods : AllIdle /\ UpdateNewPodsByIPIndex(t, o)
  \/ \E t \in Caller : \E o \in ConcPods : AllIdle /\ UpdateDeletedPodsByIPIndex(t, o)
  \/ \E t \in Threads : Step(t)
  \/ \E t \in Threads : IPIndex_Lock(t)
  \/ \E t \in Threads : IPIndex_Apply(t)
  \/ \E t \in Threads : IPIndex_Unlock(t)
  \/ \E p \in AllPods : AllIdle /\ InformerUpdate(p)

SpecSeq == Init /\ [][NextSeq]_vars

\* AddProcess and OnDeletion calls exclude one another; OwnerPodInfo and
\* CleanProcessCaches interleave freely with them.
NoWriter ==
  \A u \in Threads : Running(u) => frame[u].op \notin {"AddProcess", "OnDeletion"}

NextDel ==
  \/ \E t \in Threads : \E pid \in ConcPIDs : NoWriter /\ AddProcess(t, pid)
  \/ \E t \in Threads : \E b \in Batches(ConcCIDs, ConcBatch) : NoWriter /\ OnDeletion(t, b)
  \/ \E t \in Threads : \E ns \in ConcNS : CleanProcessCaches(t, ns)
  \/ \E t \in Threads : \E ns \in ConcNS : OwnerPodInfo(t, ns)
  \/ \E t \in Threads : Step(t)
  \/ \E p \in AllPods : InformerUpdate(p)

SpecDel == Init /\ [][NextDel]_vars

\* The IP indexes, one call at a time.
IPStep(t) ==
  \/ IPIndex_Lock(t)
  \/ IPIndex_Apply(t)
  \/ IPIndex_Unlock(t)
  \/ IPRead_RLock(t)
  \/ IPRead_Read(t)
  \/ Lookup_RLock(t)
  \/ Lookup_Read(t)
  \/ Return(t)

NextIP ==
  \/ \E t \in Caller : \E o \in IPPods : AllIdle /\ UpdateNewPodsByIPIndex(t, o)
  \/ \E t \in Caller : \E o \in IPPods : AllIdle /\ UpdateDeletedPodsByIPIndex(t, o)
  \/ \E t \in Caller : \E o \in IPServices : AllIdle /\ UpdateNewServicesByIPIndex(t, o)
  \/ \E t \in Caller : \E o \in IPServices : AllIdle /\ UpdateDeletedServicesByIPIndex(t, o)
  \/ \E t \in Caller : \E o \in IPNodes : AllIdle /\ UpdateNewNodesByIPIndex(t, o)
  \/ \E t \in Caller : \E o \in IPNodes : AllIdle /\ UpdateDeletedNodesByIPIndex(t, o)
  \/ \E t \in Caller : \E ip \in AllIPs : AllIdle /\ PodInfoForIP(t, ip)
  \/ \E t \in Caller : \E ip \in AllIPs : AllIdle /\ ServiceInfoForIP(t, ip)
  \/ \E t \in Caller : \E ip \in AllIPs : AllIdle /\ NodeInfoForIP(t, ip)
  \/ \E t \in Caller : \E ip \in AllIPs : AllIdle /\ HostNameForIP(t, ip)
  \/ \E t \in Caller : \E ip \in AllIPs : AllIdle /\ ServiceNameNamespaceForIP(t, ip)
  \/ \E t \in Threads : IPStep(t)

SpecIP == Init /\ [][NextIP]_vars

\* Concurrent writers and readers of the IP indexes.

NextIPConc ==
  \/ \E t \in Threads : \E o \in ConcPods : UpdateNewPodsByIPIndex(t, o)
  \/ \E t \in Threads : \E o \in ConcPods : UpdateDeletedPodsByIPIndex(t, o)
  \/ \E t \in Threads : \E o \in ConcServices : UpdateNewServicesByIPIndex(t, o)
  \/ \E t \in Threads : \E o \in ConcServices : UpdateDeletedServicesByIPIndex(t, o)
  \/ \E t \in Threads : \E o \in ConcNodes : UpdateNewNodesByIPIndex(t, o)
  \/ \E t \in Threads : \E o \in ConcNodes : UpdateDeletedNodesByIPIndex(t, o)
  \/ \E t \in Threads : \E ip \in ConcIPs : PodInfoForIP(t, ip)
  \/ \E t \in Threads : \E ip \in ConcIPs : ServiceInfoForIP(t, ip)
  \/ \E t \in Threads : \E ip \in ConcIPs : NodeInfoForIP(t, ip)
  \/ \E t \in Threads : \E ip \in ConcIPs : HostNameForIP(t, ip)
  \/ \E t \in Threads : \E ip \in ConcIPs : ServiceNameNamespaceForIP(t, ip)
  \/ \E t \in Threads : IPStep(t)

SpecIPConc == Init /\ [][NextIPConc]_vars

\* A bounded number of calls of every kind from concurrent callers, each
\* thread scheduled fairly: a thread that can take a step eventually takes one.
LiveCall ==
  \/ \E t \in Threads : \E pid \in {101} : calls < MaxCalls /\ AddProcess(t, pid)
  \/ \E t \in Threads : calls < MaxCalls /\ OnDeletion(t, <<"c1">>)
  \/ \E t \in Threads : \E ns \in ConcNS : calls < MaxCalls /\ CleanProcessCaches(t, ns)
  \/ \E t \in Threads : \E ns \in ConcNS : calls < MaxCalls /\ OwnerPodInfo(t, ns)
  \/ \E t \in Threads : \E o \in ConcPods : calls < MaxCalls /\ UpdateNewPodsByIPIndex(t, o)
  \/ \E t \in Threads : \E o \in ConcServices : calls < MaxCalls /\ UpdateNewServicesByIPIndex(t, o)
  \/ \E t \in Threads : \E o \in ConcNodes : calls < MaxCalls /\ UpdateNewNodesByIPIndex(t, o)
  \/ \E t \in Threads : \E ip \in ConcIPs : calls < MaxCalls /\ PodInfoForIP(t, ip)
  \/ \E t \in Threads : \E ip \in ConcIPs : calls < MaxCalls /\ HostNameForIP(t, ip)
  \/ \E t \in Threads : \E ip \in ConcIPs : calls < MaxCalls /\ ServiceNameNamespaceForIP(t, ip)

LiveStep(t) ==
  \/ Step(t)
  \/ IPIndex_Lock(t)
  \/ IPIndex_Apply(t)
  \/ IPIndex_Unlock(t)
  \/ IPRead_RLock(t)
  \/ IPRead_Read(t)
  \/ Lookup_RLock(t)
  \/ Lookup_Read(t)

NextLive ==
  \/ LiveCall
  \/ \E t \in Threads : LiveStep(t)
  \/ \E p \in ConcPods : InformerUpdate(p)

SpecLive ==
  /\ Init
  /\ [][NextLive]_vars
  /\ \A t \in Threads : WF_vars(LiveStep(t))

\* Both index groups, one call at a time: the container calls and the add and
\* delete events of the three IP indexes.
BothStep(t) ==
  \/ Step(t)
  \/ IPIndex_Lock(t)
  \/ IPIndex_Apply(t)
  \/ IPIndex_Unlock(t)
  \/ IPRead_RLock(t)
  \/ IPRead_Read(t)

NextBoth ==
  \/ \E t \in Caller : \E pid \in ConcPIDs : AllIdle /\ AddProcess(t, pid)
  \/ \E t \in Caller : \E b \in Batches(ConcCIDs, ConcBatch) : AllIdle /\ OnDeletion(t, b)
  \/ \E t \in Caller : \E ns \in ConcNS : AllIdle /\ CleanProcessCaches(t, ns)
  \/ \E t \in Caller : \E ns \in ConcNS : AllIdle /\ OwnerPodInfo(t, ns)
  \/ \E t \in Caller : \E o \in ConcPods : AllIdle /\ UpdateNewPodsByIPIndex(t, o)
  \/ \E t \in Caller : \E o \in ConcPods : AllIdle /\ UpdateDeletedPodsByIPIndex(t, o)
  \/ \E t \in Caller : \E o \in ConcServices : AllIdle /\ UpdateNewServicesByIPIndex(t, o)
  \/ \E t \in Caller : \E o \in ConcServices : AllIdle /\ UpdateDeletedServicesByIPIndex(t, o)
  \/ \E t \in Caller : \E o \in ConcNodes : AllIdle /\ UpdateNewNodesByIPIndex(t, o)
  \/ \E t \in Caller : \E o \in ConcNodes : AllIdle /\ UpdateDeletedNodesByIPIndex(t, o)
  \/ \E t \in Caller : \E ip \in ConcIPs : AllIdle /\ PodInfoForIP(t, ip)
  \/ \E t \in Threads : BothStep(t)
  \/ \E p \in ConcPods : AllIdle /\ InformerUpdate(p)

SpecBoth == Init /\ [][NextBoth]_vars

\* StartDatabase, then the informer delivering events through the handlers it
\* was given, one event at a time, while another thread reads the indexes of
\* the database StartDatabase returned.
Readers == Threads \ Caller

StartPods == {"web-1", "web-2"}
StartServices == {"svc-a", "svc-b"}
StartNodes == {"node-1"}
StartIPs == {"10.0.0.5", "10.0.0.6"}

NextStart ==
  \/ StartDatabase_AddContainerEventHandler
  \/ StartDatabase_AddPodEventHandler
  \/ StartDatabase_AddServiceIPEventHandler
  \/ StartDatabase_AddNodeEventHandler
  \/ \E t \in Caller : \E o \in StartPods : AddFunc(t, "pods", o)
  \/ \E t \in Caller : \E o \in StartPods : DeleteFunc(t, "pods", o)
  \/ \E t \in Caller : \E o, n \in StartPods : UpdateFunc(t, "pods", o, n)
  \/ \E t \in Caller : \E o \in StartServices : AddFunc(t, "svc", o)
  \/ \E t \in Caller : \E o, n \in StartServices : UpdateFunc(t, "svc", o, n)
  \/ \E t \in Caller : \E o \in StartNodes : AddFunc(t, "nodes", o)
  \/ \E t \in Caller : \E o, n \in StartNodes : UpdateFunc(t, "nodes", o, n)
  \/ \E t \in Threads : UpdateFunc_Second(t)
  \/ \E t \in Readers : \E ip \in StartIPs : start.db /\ PodInfoForIP(t, ip)
  \/ \E t \in Readers : \E ip \in StartIPs : start.db /\ ServiceInfoForIP(t, ip)
  \/ \E t \in Threads : IPIndex_Lock(t)
  \/ \E t \in Threads : IPIndex_Apply(t)
  \/ \E t \in Threads : IPIndex_Unlock(t)
  \/ \E t \in Threads : IPRead_RLock(t)
  \/ \E t \in Threads : IPRead_Read(t)
  \/ \E t \in Threads : Return(t)

SpecStart == Init /\ [][NextStart]_vars

\* ===================================================================== claims
Done(t, op) == pc[t] = "done" /\ frame[t].op = op

\* C1: once an AddProcess mapping namespace n to container c has returned and
\* no later AddProcess or OnDeletion touches n, the pod-owner cache entry for
\* n, if present, and every pod returned by an OwnerPodInfo(n) call started
\* afterwards, is the pod the informer resolves for c.
C1_NoStalePodAfterAddProcess ==
  \A n \in AllNS :
    lastAdd[n] # "" =>
      /\ MapHas(fetchedPodsCache, n) => fetchedPodsCache[n] = PodOf(lastAdd[n])
      /\ \A t \in Threads :
           (Done(t, "OwnerPodInfo") /\ frame[t].ns = n /\ frame[t].ok
              /\ obs[t].since = lastAdd[n])
             => frame[t].pod = PodOf(lastAdd[n])

\* C2: when OnDeletion([cid]) returns, with no AddProcess running concurrently,
\* the container-ID index has no entry for cid, the namespace index has no
\* entry whose ContainerInfo has container ID cid, and the pod-owner cache has
\* no entry for the PID namespace cid was indexed under.
C2_OnDeletionLeavesNothing ==
  [][\A t \in Threads :
       (Returns(t, "OnDeletion") /\ Len(frame[t].cids) = 1) =>
         LET cid == frame[t].cids[1]
         IN /\ ~MapHas(containerIDs', cid)
            /\ \A n \in DOMAIN namespaces' : namespaces'[n].ContainerID # cid
            /\ frame[t].ok => ~MapHas(fetchedPodsCache', frame[t].ns)]_vars

\* C3: for every container added and not deleted, OwnerPodInfo for its PID
\* namespace returns not-found only when the informer has no pod for that
\* container, and otherwise the same pod on every call until the container is
\* deleted or the namespace is invalidated.
C3_LiveContainerResolves ==
  \A t \in Threads :
    Done(t, "OwnerPodInfo") =>
      /\ ~frame[t].ok =>
           \A cid \in DOMAIN containerIDs :
             containerIDs[cid].PIDNamespace = frame[t].ns => ~GetContainerPod(cid).ok
      /\ (frame[t].ok /\ obs[t].valid /\ seen[frame[t].ns] # Nil)
           => frame[t].pod = seen[frame[t].ns]

\* C4: for a namespace with no cached pod, any two OwnerPodInfo calls that both
\* return found return the same pod, unless an AddProcess for the namespace,
\* CleanProcessCaches of it or OnDeletion of its container occurs between them.
C4_CacheCoherence ==
  \A t \in Threads :
    (Done(t, "OwnerPodInfo") /\ frame[t].ok /\ obs[t].valid
       /\ seen[frame[t].ns] # Nil)
      => frame[t].pod = seen[frame[t].ns]

\* C5: OnDeletion is idempotent and safe: a second OnDeletion with the same
\* IDs leaves the container-ID index, the namespace index and the pod-owner
\* cache (and every other map) as the first call left them, a call whose IDs
\* are all unknown changes no map at all, and no call panics.
C5_OnDeletionIdempotent ==
  \A t \in Threads :
    /\ pc[t] # "panic"
    /\ (Done(t, "OnDeletion") /\ pre.set) =>
         /\ (prev.op = "OnDeletion" /\ prev.cids = frame[t].cids) => Snap = pre.db
         /\ (\A i \in 1..Len(frame[t].cids) :
               ~MapHas(pre.db.containerIDs, frame[t].cids[i])) => Snap = pre.db

\* a repeated OnDeletion([cid]) has returned while other containers are indexed
C5_Witness ==
  \E t \in Threads :
    /\ Done(t, "OnDeletion") /\ pre.set
    /\ prev.op = "OnDeletion" /\ prev.cids = frame[t].cids
    /\ Len(frame[t].cids) = 1
    /\ DOMAIN containerIDs # {} /\ DOMAIN namespaces # {}

SeqRange(q) == {q[i] : i \in 1..Len(q)}

\* C6: HostNameForIP and ServiceNameNamespaceForIP answer from the service
\* index if it has the IP, else from the pod index (the pod's name, or its
\* service name for ServiceNameNamespaceForIP), else from the node index, else
\* with the empty result.
C6_Precedence ==
  \A t \in Threads :
    LET ip == frame[t].ip IN
    /\ (Done(t, "HostNameForIP") /\ pre.set) =>
         frame[t].ret = IF MapHas(svcByIP, ip) THEN NameOf(svcByIP[ip])
                        ELSE IF MapHas(podsByIP, ip) THEN NameOf(podsByIP[ip])
                        ELSE IF MapHas(nodeByIP, ip) THEN NameOf(nodeByIP[ip])
                        ELSE ""
    /\ (Done(t, "ServiceNameNamespaceForIP") /\ pre.set) =>
         <<frame[t].ret, frame[t].retns>> =
           IF MapHas(svcByIP, ip)
             THEN <<NameOf(svcByIP[ip]), NamespaceOf(svcByIP[ip])>>
           ELSE IF MapHas(podsByIP, ip)
             THEN <<ServiceName(podsByIP[ip]), NamespaceOf(podsByIP[ip])>>
           ELSE IF MapHas(nodeByIP, ip)
             THEN <<NameOf(nodeByIP[ip]), NamespaceOf(nodeByIP[ip])>>
           ELSE <<"", "">>

\* a lookup of an IP that the service, pod and node indexes all hold has
\* returned the service
C6_Witness ==
  \E t \in Threads :
    /\ Done(t, "ServiceNameNamespaceForIP") /\ pre.set
    /\ MapHas(svcByIP, frame[t].ip) /\ MapHas(podsByIP, frame[t].ip)
    /\ MapHas(nodeByIP, frame[t].ip)
    /\ frame[t].ret = NameOf(svcByIP[frame[t].ip])

\* C7: a lookup made right after UpdateNew*ByIPIndex(obj), for an IP of obj,
\* returns obj, and one made right after UpdateDeleted*ByIPIndex(obj) returns
\* the miss sentinel; for the pod, service and node indexes alike.
C7_RoundTrip ==
  \A t \in Threads :
    (/\ pc[t] = "done"
     /\ frame[t].op \in {"PodInfoForIP", "ServiceInfoForIP", "NodeInfoForIP"}
     /\ pre.set
     /\ prev.obj # Nil
     /\ FamOf(prev.op) = FamOf(frame[t].op)
     /\ frame[t].ip \in SeqRange(IPsOf(prev.obj)))
      => frame[t].ret = IF IsAdd(prev.op) THEN prev.obj ELSE Nil

\* PodInfoForIP of the second address of web-1 has returned right after
\* UpdateNewPodsByIPIndex(web-1)
C7_Witness ==
  \E t \in Threads :
    /\ Done(t, "PodInfoForIP") /\ pre.set
    /\ prev.op = "UpdateNewPodsByIPIndex" /\ prev.obj = "web-1"
    /\ frame[t].ip = IPsOf("web-1")[2]
    /\ frame[t].ret = "web-1"

\* an update of index fam has applied some but not all of its object's IPs
HalfApplied(fam) ==
  \E w \in Threads :
    /\ pc[w] = "ipw_loop"
    /\ FamOf(frame[w].op) = fam
    /\ 0 < frame[w].i
    /\ frame[w].i < Len(IPsOf(frame[w].obj))

\* thread r is about to read index fam
Reading(r, fam) ==
  \/ pc[r] = "ipr_cs" /\ FamOf(frame[r].op) = fam
  \/ pc[r] = "lookup_cs" /\ Tiers[frame[r].tier] = fam

Families == {"pods", "svc", "nodes"}

\* C8: no *InfoForIP, HostNameForIP or ServiceNameNamespaceForIP read of an
\* index happens while an update of that index has applied only some of its
\* object's IPs.
C8_NoHalfAppliedRead ==
  \A fam \in Families : \A r \in Threads : Reading(r, fam) => ~HalfApplied(fam)

\* an update of the pod index is half applied while PodInfoForIP waits for
\* the lock
C8_Witness ==
  /\ HalfApplied("pods")
  /\ \E r \in Threads : pc[r] = "ipr_lock" /\ frame[r].op = "PodInfoForIP"

\* C9: CleanProcessCaches(ns) removes at most the pod-owner cache entry for ns
\* and leaves the namespace index, the container-ID index, the three IP
\* indexes and the cache entries of other namespaces unchanged.
C9_CleanProcessCachesFrame ==
  \A t \in Threads :
    (Done(t, "CleanProcessCaches") /\ pre.set) =>
      /\ namespaces = pre.db.namespaces
      /\ containerIDs = pre.db.containerIDs
      /\ podsByIP = pre.db.podsByIP
      /\ svcByIP = pre.db.svcByIP
      /\ nodeByIP = pre.db.nodeByIP
      /\ fetchedPodsCache = MapDelete(pre.db.fetchedPodsCache, frame[t].ns)

\* CleanProcessCaches has removed a cached pod while another namespace has
\* one, the namespace is indexed and the pod IP index is not empty
C9_Witness ==
  \E t \in Threads :
    /\ Done(t, "CleanProcessCaches") /\ pre.set
    /\ MapHas(pre.db.fetchedPodsCache, frame[t].ns)
    /\ DOMAIN fetchedPodsCache # {}
    /\ MapHas(namespaces, frame[t].ns)
    /\ DOMAIN podsByIP # {}

\* C10: when InfoForPID fails, AddProcess returns leaving every map as it was.
C10_AddProcessErrorNoChange ==
  \A t \in Threads :
    (Done(t, "AddProcess") /\ frame[t].err /\ pre.set) => Snap = pre.db

\* a failed AddProcess has returned with containers indexed and a pod cached
C10_Witness ==
  \E t \in Threads :
    /\ Done(t, "AddProcess") /\ frame[t].err /\ pre.set
    /\ DOMAIN containerIDs # {} /\ DOMAIN namespaces # {}
    /\ DOMAIN fetchedPodsCache # {}

IsPrefix(p, q) == Len(p) <= Len(q) /\ \A i \in 1..Len(p) : p[i] = q[i]

\* the pod, service and node registrations among a sequence of registrations
KindsOf(q) == SelectSeq(q, LAMBDA k : k # "containers")

HandlerOrder == <<"pods", "svc", "nodes">>

ErrKind(k) == CASE k = "pods" -> "Pod"
                [] k = "svc" -> "Service"
                [] OTHER -> "Node"

\* C11: StartDatabase attempts the pod, service and node registrations in that
\* order; when one fails it returns an error naming that kind and no database,
\* having attempted no later registration; it returns a database exactly when
\* all three registrations succeeded.
C11_StartDatabaseFailFast ==
  LET a == KindsOf(start.attempted)
      h == KindsOf(start.handlers)
  IN /\ IsPrefix(a, HandlerOrder)
     /\ IsPrefix(h, a)
     /\ start.pc # "returned" => (h = a /\ ~start.db /\ start.err = "")
     /\ start.pc = "returned" =>
          /\ start.db <=> h = HandlerOrder
          /\ start.db <=> start.err = ""
          /\ ~start.db => (Len(a) = Len(h) + 1 /\ start.err = ErrKind(a[Len(a)]))

\* the service registration has failed after the pod registration succeeded
C11_Witness ==
  /\ start.pc = "returned"
  /\ start.err = "Service"
  /\ KindsOf(start.attempted) = <<"pods", "svc">>
  /\ ~start.db

\* C12: an OwnerPodInfo(n) call running alone returns found exactly when the
\* cache held n, or the namespace index held n and the informer resolves that
\* container; a found call has called FetchPodOwnerInfo on the pod it returns,
\* on the hit path (the cached pod, cache untouched) and on the miss path (the
\* informer's pod, which the cache then holds); a not-found call has called no
\* FetchPodOwnerInfo and leaves every map unchanged.
C12_OwnerPodInfoContract ==
  \A t \in Threads :
    (Done(t, "OwnerPodInfo") /\ pre.set) =>
      LET n == frame[t].ns
          hit == MapHas(pre.db.fetchedPodsCache, n)
          known == MapHas(pre.db.namespaces, n)
          r == IF known THEN GetContainerPod(pre.db.namespaces[n].ContainerID)
                        ELSE [pod |-> Nil, ok |-> FALSE]
      IN /\ frame[t].ok <=> (hit \/ (known /\ r.ok))
         /\ frame[t].fetched <=> frame[t].ok
         /\ hit => (frame[t].pod = pre.db.fetchedPodsCache[n] /\ Snap = pre.db)
         /\ (~hit /\ frame[t].ok) =>
              /\ frame[t].pod = r.pod
              /\ fetchedPodsCache = MapSet(pre.db.fetchedPodsCache, n, r.pod)
              /\ namespaces = pre.db.namespaces
              /\ containerIDs = pre.db.containerIDs
         /\ ~frame[t].ok => Snap = pre.db

\* an OwnerPodInfo call has returned a cached pod after FetchPodOwnerInfo
C12_Witness ==
  \E t \in Threads :
    /\ Done(t, "OwnerPodInfo") /\ pre.set
    /\ MapHas(pre.db.fetchedPodsCache, frame[t].ns)
    /\ frame[t].ok /\ frame[t].fetched
    /\ frame[t].pod = "web-2"

\* no operation is in flight
Quiescent == \A t \in Threads : ~Running(t)

\* C13: once all in-flight operations have returned, every PID namespace is
\* Unknown (no namespace entry, no cache entry), ContainerKnown (namespace
\* entry, no cache entry) or PodCached (both): no namespace has a pod-owner
\* cache entry without a namespace index entry.
C13_NamespaceStates ==
  Quiescent => \A n \in DOMAIN fetchedPodsCache : MapHas(namespaces, n)

\* every namespace index entry refers to an indexed container
NamespacesRefer ==
  \A n \in DOMAIN namespaces : MapHas(containerIDs, namespaces[n].ContainerID)

\* C14: in every quiescent state reached when each container added by
\* AddProcess has since been passed to OnDeletion, the container-ID index, the
\* namespace index and the pod-owner cache are empty; and in every quiescent
\* state each namespace index entry refers to a container ID present in the
\* container-ID index.
C14_NoResidue ==
  Quiescent =>
    /\ added = {} => /\ DOMAIN containerIDs = {}
                     /\ DOMAIN namespaces = {}
                     /\ DOMAIN fetchedPodsCache = {}
    /\ NamespacesRefer

\* C15: when a successful AddProcess for container (cid, ns) returns and no
\* other operation is in flight, the container-ID index maps cid to its
\* ContainerInfo, the namespace index maps ns to the same ContainerInfo, and
\* the pod-owner cache has no entry for ns.
C15_AddProcessPostState ==
  [][\A t \in Threads :
       (/\ Returns(t, "AddProcess")
        /\ ~frame[t].err
        /\ \A u \in Threads \ {t} : ~Running(u))
         => LET info == frame[t].info
            IN /\ MapGet(containerIDs', info.ContainerID, NoInfo) = info
               /\ MapGet(namespaces', info.PIDNamespace, NoInfo) = info
               /\ ~MapHas(fetchedPodsCache', info.PIDNamespace)]_vars

UpdateOps ==
  {"UpdateNewPodsByIPIndex", "UpdateDeletedPodsByIPIndex",
   "UpdateNewServicesByIPIndex", "UpdateDeletedServicesByIPIndex",
   "UpdateNewNodesByIPIndex", "UpdateDeletedNodesByIPIndex"}

\* index m after an add or delete event for obj: last writer wins per IP
LastWriter(m, isAdd, obj) ==
  LET ips == SeqRange(IPsOf(obj))
  IN [ip \in (IF isAdd THEN DOMAIN m \cup ips ELSE DOMAIN m \ ips) |->
        IF isAdd /\ ip \in ips THEN obj ELSE m[ip]]

\* the index of family fam in a snapshot of the maps
SnapIndex(db, fam) == CASE fam = "pods" -> db.podsByIP
                        [] fam = "svc" -> db.svcByIP
                        [] OTHER -> db.nodeByIP

\* C16: each add or delete event, applied in delivery order, leaves its index
\* as last-writer-wins per IP prescribes: every IP of the event's object maps
\* to that object after an add and is unmapped after a delete, whatever object
\* it mapped to before, and every other IP is as it was.
C16_LastWriterWins ==
  \A t \in Threads :
    (pc[t] = "done" /\ frame[t].op \in UpdateOps /\ pre.set) =>
      Index(FamOf(frame[t].op)) =
        LastWriter(SnapIndex(pre.db, FamOf(frame[t].op)), IsAdd(frame[t].op),
                   frame[t].obj)

\* the delete of web-1, delivered after the add of web-2, has unmapped the IP
\* they share although web-2 was never deleted, and left web-1's other IP out
C16_Witness ==
  \E t \in Threads :
    /\ Done(t, "UpdateDeletedPodsByIPIndex") /\ pre.set
    /\ frame[t].obj = "web-1"
    /\ prev.op = "UpdateNewPodsByIPIndex" /\ prev.obj = "web-2"
    /\ MapGet(pre.db.podsByIP, "10.0.0.5", Nil) = "web-2"
    /\ ~MapHas(podsByIP, "10.0.0.5")
    /\ DOMAIN svcByIP # {}

\* thread w is inside UpdateFunc, between its two calls
BetweenCalls(w) ==
  /\ frame[w].handler = "UpdateFunc"
  /\ \/ pc[w] = "done" /\ frame[w].nextOp # ""
     \/ pc[w] = "ipw_lock" /\ frame[w].nextOp = ""

\* C17: an update event (old, new) is applied as delete-old, then add-new, in
\* two critical sections: between the two, with the index's lock free, no IP
\* of old is mapped, not even one that new shares; once the handler has
\* returned every IP of new maps to new and every IP only in old is unmapped.
C17_UpdateIsDeleteThenAdd ==
  \A w \in Threads :
    LET f == frame[w]
        fam == FamOf(f.op)
        idx == Index(fam)
    IN /\ BetweenCalls(w) =>
            /\ wlock[MutexOf(fam)] = 0
            /\ \A ip \in SeqRange(IPsOf(f.evOld)) : ~MapHas(idx, ip)
       /\ (pc[w] = "done" /\ f.handler = "UpdateFunc" /\ f.nextOp = "") =>
            /\ \A ip \in SeqRange(IPsOf(f.evNew)) : MapGet(idx, ip, Nil) = f.evNew
            /\ \A ip \in SeqRange(IPsOf(f.evOld)) \ SeqRange(IPsOf(f.evNew)) :
                 ~MapHas(idx, ip)

\* a reader holds the pod index's read lock for the IP web-1 and web-2 share
\* while the update (web-1, web-2) is between its two calls and the IP is
\* unmapped
C17_Witness ==
  \E w \in Caller : \E r \in Readers :
    /\ BetweenCalls(w)
    /\ frame[w].evOld = "web-1" /\ frame[w].evNew = "web-2"
    /\ pc[r] = "ipr_cs" /\ frame[r].op = "PodInfoForIP"
    /\ frame[r].ip = "10.0.0.5"
    /\ ~MapHas(podsByIP, "10.0.0.5")

\* thread t is about to call, or is inside, GetContainerPod or
\* FetchPodOwnerInfo
InInformerCall(t) == pc[t] \in {"OwnerPodInfo_get", "OwnerPodInfo_fetch"}

\* the locks thread t holds
Held(t) == {m \in Mutexes : wlock[m] = t \/ t \in rlock[m]}

\* C18: a thread inside GetContainerPod or FetchPodOwnerInfo holds none of the
\* six locks, so no lock another operation waits for is held by a thread that
\* is inside an informer call.
C18_NoLockAcrossInformer ==
  \A t \in Threads : InInformerCall(t) => Held(t) = {}

\* one thread is inside GetContainerPod while another holds the namespace
\* lock exclusively
C18_Witness ==
  \E t, u \in Threads :
    /\ pc[t] = "OwnerPodInfo_get"
    /\ u # t
    /\ wlock["nsMut"] = u

\* C19: no thread ever holds two of the six locks at once, and every
\* operation a fairly scheduled thread has invoked eventually returns.
C19_NoTwoLocksAndTermination ==
  /\ [](\A t \in Threads : Cardinality(Held(t)) <= 1)
  /\ \A t \in Threads : Running(t) ~> ~Running(t)

\* one thread, inside addProcess, waits for the container-ID lock another
\* thread holds
C19_Witness ==
  \E t, u \in Threads :
    /\ t # u
    /\ pc[t] = "addProcess_cnt"
    /\ wlock["cntMut"] = u

ContainerOps == {"AddProcess", "OnDeletion", "CleanProcessCaches", "OwnerPodInfo"}

\* C20: AddProcess, OnDeletion, CleanProcessCaches and OwnerPodInfo leave the
\* pod, service and node IP indexes as they were; each of the six
\* UpdateNew*/UpdateDeleted*ByIPIndex operations leaves the container-ID
\* index, the namespace index, the pod-owner cache and the other two IP
\* indexes as they were; and PodInfoForIP answers from the pod IP index alone,
\* a miss for an IP no pod-add event has indexed, whatever OwnerPodInfo cached.
C20_IndexGroupsIndependent ==
  \A t \in Threads :
    (pc[t] = "done" /\ pre.set) =>
      /\ frame[t].op \in ContainerOps =>
           /\ podsByIP = pre.db.podsByIP
           /\ svcByIP = pre.db.svcByIP
           /\ nodeByIP = pre.db.nodeByIP
      /\ frame[t].op \in UpdateOps =>
           /\ containerIDs = pre.db.containerIDs
           /\ namespaces = pre.db.namespaces
           /\ fetchedPodsCache = pre.db.fetchedPodsCache
           /\ \A fam \in Families \ {FamOf(frame[t].op)} :
                Index(fam) = SnapIndex(pre.db, fam)
      /\ frame[t].op = "PodInfoForIP" =>
           frame[t].ret = MapGet(pre.db.podsByIP, frame[t].ip, Nil)

\* PodInfoForIP of web-1's IP is a miss although OwnerPodInfo has returned and
\* cached web-1 and the service and node indexes hold that IP
C20_Witness ==
  \E t \in Threads :
    /\ Done(t, "PodInfoForIP") /\ pre.set
    /\ frame[t].ip = IPsOf("web-1")[1]
    /\ frame[t].ret = Nil
    /\ MapGet(fetchedPodsCache, 7, Nil) = "web-1"
    /\ MapHas(svcByIP, frame[t].ip) /\ MapHas(nodeByIP, frame[t].ip)

====
